---- MODULE Spec2Model ----
(***************************************************************************)
(* A model of the Pong game session of src/main.rs: the MainState struct,  *)
(* its tick (update) and its four input handlers.  All coordinates the     *)
(* program handles here are whole numbers that f32 represents exactly, so  *)
(* they are modelled as integers.                                          *)
(***************************************************************************)
EXTENDS Integers, FiniteSets, Sequences, TLC

\* ------------------------------------------------------------ constants
WINDOW_WIDTH == 800
WINDOW_HEIGHT == 600
PADDLE_WIDTH == 20
PADDLE_HEIGHT == 100
PADDLE_SPEED == 5
BALL_RADIUS == 10

\* The layout of a menu: four options, 200 x 50, from (300, 200) down.
MENU_X == 300
MENU_Y == 200
MENU_W == 200
MENU_H == 50
MENU_LAST == 3

\* ------------------------------------------------------------ bounds
\* The number of events (ticks and inputs) of a run.
MaxEvents == 7

\* ------------------------------------------------------------ inputs
Difficulties == {"Easy", "Medium", "Hard"}
GameStates == {"Home", "Menu", "Playing", "Paused"}
\* KeyCode: the six keys the handler names, and one standing for every other.
KeyCodes == {"Return", "W", "S", "Up", "Down", "P", "Other"}
MouseButtons == {"Left", "Right"}
\* Cursor positions <<x, y>> of a button press: in the menu column at the
\* heights of the four options, of the edges two options share and just above
\* and below the menu; on the menu's corners and just left and right of it;
\* and on either paddle's column at the heights the paddles reach.
ClickPoints ==
  { <<310, 215>>, <<310, 250>>, <<310, 275>>, <<310, 300>>, <<310, 325>>,
    <<310, 350>>, <<310, 375>>, <<310, 401>>, <<310, 199>>,
    <<300, 200>>, <<500, 400>>, <<299, 215>>, <<501, 375>>,
    <<10, 50>>, <<10, 300>>, <<10, 550>>, <<790, 300>>, <<790, 500>> }
\* Button presses <<button, <<x, y>>>>: the left button at every click point,
\* and the right button, which the handler ignores wherever it is pressed, on
\* a menu option and on a paddle.
ButtonPresses ==
  {<<"Left", p>> : p \in ClickPoints} \cup {<<"Right", <<310, 215>>>>, <<"Right", <<10, 300>>>>}
\* Cursor heights of a motion event: above the window, below it, and inside
\* it at a height that is no multiple of the paddle step from the ends.
MotionYs == {-7, 498, 640}

VARIABLES left_paddle_y, right_paddle_y, ball_position, ball_velocity,
          difficulty, game_state, menu_selection, pause_selection,
          left_paddle_dragging, right_paddle_dragging,
          events,      \* how many events have been delivered
          paused_at    \* history: see Game below

vars == <<left_paddle_y, right_paddle_y, ball_position, ball_velocity,
          difficulty, game_state, menu_selection, pause_selection,
          left_paddle_dragging, right_paddle_dragging, events, paused_at>>

\* The MainState struct as a record.
State ==
  [left_paddle_y |-> left_paddle_y, right_paddle_y |-> right_paddle_y,
   ball_position |-> ball_position, ball_velocity |-> ball_velocity,
   difficulty |-> difficulty, game_state |-> game_state,
   menu_selection |-> menu_selection, pause_selection |-> pause_selection,
   left_paddle_dragging |-> left_paddle_dragging,
   right_paddle_dragging |-> right_paddle_dragging]

Vec2(a, b) == [x |-> a, y |-> b]

Abs(n) == IF n < 0 THEN -n ELSE n

\* f32::clamp
Clamp(v, lo, hi) == IF v < lo THEN lo ELSE IF v > hi THEN hi ELSE v

\* graphics::Rect::contains: the rectangle's four edges belong to it.
RectContains(rx, ry, rw, rh, px, py) ==
  /\ px >= rx /\ px <= rx + rw
  /\ py <= ry + rh /\ py >= ry

PADDLE_CENTRE == WINDOW_HEIGHT \div 2 - PADDLE_HEIGHT \div 2

\* MainState::new
new ==
  [left_paddle_y |-> PADDLE_CENTRE, right_paddle_y |-> PADDLE_CENTRE,
   ball_position |-> Vec2(WINDOW_WIDTH \div 2, WINDOW_HEIGHT \div 2),
   ball_velocity |-> Vec2(0, 0),
   difficulty |-> "Medium", game_state |-> "Home",
   menu_selection |-> 1, pause_selection |-> 0,
   left_paddle_dragging |-> FALSE, right_paddle_dragging |-> FALSE]

\* The speeds of start_game, were Hard to have Medium's
Speed_hard_as_medium(d) == CASE d = "Easy" -> 2 [] d = "Medium" -> 4 [] d = "Hard" -> 4

Speed(d) == CASE d = "Easy" -> 2 [] d = "Medium" -> 4 [] d = "Hard" -> 6

Sign(n) == IF n < 0 THEN -1 ELSE 1

\* start_game, were it to rescale the velocity and keep its direction
start_game_keeps_direction(s) ==
  [s EXCEPT !.ball_velocity = Vec2(Sign(s.ball_velocity.x) * Speed(s.difficulty),
                                   Sign(s.ball_velocity.y) * Speed(s.difficulty)),
            !.game_state = "Playing"]

\* MainState::start_game
start_game(s) ==
  [s EXCEPT !.ball_velocity = Vec2(Speed(s.difficulty), Speed(s.difficulty)),
            !.game_state = "Playing"]

\* restart_game, were it to leave the right paddle where it is
restart_game_left_only(s) ==
  start_game([s EXCEPT !.left_paddle_y = PADDLE_CENTRE,
                       !.ball_position =
                          Vec2(WINDOW_WIDTH \div 2, WINDOW_HEIGHT \div 2)])

\* MainState::restart_game
restart_game(s) ==
  start_game([s EXCEPT !.left_paddle_y = PADDLE_CENTRE,
                       !.right_paddle_y = PADDLE_CENTRE,
                       !.ball_position =
                          Vec2(WINDOW_WIDTH \div 2, WINDOW_HEIGHT \div 2)])

\* stop_game, were it to bring the ball to rest
stop_game_halts_ball(s) ==
  [s EXCEPT !.game_state = "Menu", !.ball_velocity = Vec2(0, 0)]

\* MainState::stop_game
stop_game(s) == [s EXCEPT !.game_state = "Menu"]

\* The wall test of update, on the advanced position.
HitsWall(p) == p.y - BALL_RADIUS < 0 \/ p.y + BALL_RADIUS > WINDOW_HEIGHT

\* The left-paddle test, were the paddle's rectangle to leave out its right
\* and bottom edges
HitsLeftPaddle_half_open(p, ly) ==
  /\ p.x - BALL_RADIUS < PADDLE_WIDTH
  /\ 0 <= p.x /\ p.x < PADDLE_WIDTH
  /\ ly <= p.y /\ p.y < ly + PADDLE_HEIGHT

\* The left-paddle test of update.
HitsLeftPaddle(p, ly) ==
  /\ p.x - BALL_RADIUS < PADDLE_WIDTH
  /\ RectContains(0, ly, PADDLE_WIDTH, PADDLE_HEIGHT, p.x, p.y)

\* The right-paddle test, were it to ask only for the ball's height to be
\* within the paddle's
HitsRightPaddle_any_x(p, ry) ==
  /\ p.x + BALL_RADIUS > WINDOW_WIDTH - PADDLE_WIDTH
  /\ p.y >= ry /\ p.y <= ry + PADDLE_HEIGHT

\* The right-paddle test of update.
HitsRightPaddle(p, ry) ==
  /\ p.x + BALL_RADIUS > WINDOW_WIDTH - PADDLE_WIDTH
  /\ RectContains(WINDOW_WIDTH - PADDLE_WIDTH, ry, PADDLE_WIDTH, PADDLE_HEIGHT,
                  p.x, p.y)

\* The body of update's Playing branch, were a paddle to speed the ball up
physics_speeds_up(s) ==
  LET p == Vec2(s.ball_position.x + s.ball_velocity.x,
                s.ball_position.y + s.ball_velocity.y)
      vy == IF HitsWall(p) THEN -s.ball_velocity.y ELSE s.ball_velocity.y
      vx1 == IF HitsLeftPaddle(p, s.left_paddle_y)
             THEN -(s.ball_velocity.x - 1) ELSE s.ball_velocity.x
      vx2 == IF HitsRightPaddle(p, s.right_paddle_y) THEN -(vx1 + 1) ELSE vx1
  IN [s EXCEPT !.ball_position = p, !.ball_velocity = Vec2(vx2, vy)]

\* The body of update's Playing branch, were a ball wholly beyond a goal line
\* to be put back on the centre spot
physics_resets_on_miss(s) ==
  LET p == Vec2(s.ball_position.x + s.ball_velocity.x,
                s.ball_position.y + s.ball_velocity.y)
      vy == IF HitsWall(p) THEN -s.ball_velocity.y ELSE s.ball_velocity.y
      vx1 == IF HitsLeftPaddle(p, s.left_paddle_y)
             THEN -s.ball_velocity.x ELSE s.ball_velocity.x
      vx2 == IF HitsRightPaddle(p, s.right_paddle_y) THEN -vx1 ELSE vx1
  IN IF p.x + BALL_RADIUS < 0 \/ p.x - BALL_RADIUS > WINDOW_WIDTH
     THEN [s EXCEPT !.ball_position = Vec2(WINDOW_WIDTH \div 2, WINDOW_HEIGHT \div 2)]
     ELSE [s EXCEPT !.ball_position = p, !.ball_velocity = Vec2(vx2, vy)]

\* The body of update's Playing branch: the ball advances, then the wall test
\* and the two paddle tests, in this order, each on the advanced position.
physics(s) ==
  LET p == Vec2(s.ball_position.x + s.ball_velocity.x,
                s.ball_position.y + s.ball_velocity.y)
      vy == IF HitsWall(p) THEN -s.ball_velocity.y ELSE s.ball_velocity.y
      vx1 == IF HitsLeftPaddle(p, s.left_paddle_y)
             THEN -s.ball_velocity.x ELSE s.ball_velocity.x
      vx2 == IF HitsRightPaddle(p, s.right_paddle_y) THEN -vx1 ELSE vx1
  IN [s EXCEPT !.ball_position = p, !.ball_velocity = Vec2(vx2, vy)]

\* update, were it to run on every screen
update_on_every_screen(s) == physics(s)

\* MainState::update
update(s) == IF s.game_state = "Playing" THEN physics(s) ELSE s

\* The selection one up, as both menus step it.
SelectionUp(n) == IF n > 0 THEN n - 1 ELSE n

\* SelectionDown, were it to have no cap
SelectionDown_uncapped(n) == n + 1

\* The selection one down, as both menus step it.
SelectionDown(n) == IF n < MENU_LAST THEN n + 1 ELSE n

\* The Home arm, were Enter to put the menu's selection back to Medium
key_down_home_resets_selection(s, keycode) ==
  IF keycode = "Return"
  THEN [s EXCEPT !.game_state = "Menu", !.menu_selection = 1]
  ELSE s

\* The Home arm, were any key to open the menu
key_down_home_any_key(s, keycode) == [s EXCEPT !.game_state = "Menu"]

\* key_down_event, the Home arm
key_down_home(s, keycode) ==
  IF keycode = "Return" THEN [s EXCEPT !.game_state = "Menu"] ELSE s

\* key_down_event, the Menu arm
key_down_menu(s, keycode) ==
  CASE keycode \in {"W", "Up"} ->
         [s EXCEPT !.menu_selection = SelectionUp(s.menu_selection)]
    [] keycode \in {"S", "Down"} ->
         [s EXCEPT !.menu_selection = SelectionDown(s.menu_selection)]
    [] keycode = "Return" ->
         CASE s.menu_selection = 0 -> start_game([s EXCEPT !.difficulty = "Easy"])
           [] s.menu_selection = 1 -> start_game([s EXCEPT !.difficulty = "Medium"])
           [] s.menu_selection = 2 -> start_game([s EXCEPT !.difficulty = "Hard"])
           [] s.menu_selection = 3 -> [s EXCEPT !.game_state = "Home"]
           [] OTHER -> s
    [] OTHER -> s

\* One paddle's step up on W / Up.
PaddleUp(y) == IF y > 0 THEN y - PADDLE_SPEED ELSE y

\* One paddle's step down on S / Down.
PaddleDown(y) == IF y + PADDLE_HEIGHT < WINDOW_HEIGHT THEN y + PADDLE_SPEED ELSE y

\* key_down_event, the Playing arm
key_down_playing(s, keycode) ==
  CASE keycode = "W" -> [s EXCEPT !.left_paddle_y = PaddleUp(s.left_paddle_y)]
    [] keycode = "S" -> [s EXCEPT !.left_paddle_y = PaddleDown(s.left_paddle_y)]
    [] keycode = "Up" -> [s EXCEPT !.right_paddle_y = PaddleUp(s.right_paddle_y)]
    [] keycode = "Down" -> [s EXCEPT !.right_paddle_y = PaddleDown(s.right_paddle_y)]
    [] keycode = "P" -> [s EXCEPT !.game_state = "Paused"]
    [] OTHER -> s

\* Resume, were it to relaunch the ball
resume_relaunches(s) == start_game(s)

\* The pause menu's Resume
resume(s) == [s EXCEPT !.game_state = "Playing"]

\* key_down_event, the Paused arm
key_down_paused(s, keycode) ==
  CASE keycode \in {"W", "Up"} ->
         [s EXCEPT !.pause_selection = SelectionUp(s.pause_selection)]
    [] keycode \in {"S", "Down"} ->
         [s EXCEPT !.pause_selection = SelectionDown(s.pause_selection)]
    [] keycode = "Return" ->
         CASE s.pause_selection = 0 -> resume(s)
           [] s.pause_selection = 1 -> restart_game(s)
           [] s.pause_selection = 2 -> stop_game(s)
           [] s.pause_selection = 3 -> [s EXCEPT !.game_state = "Home"]
           [] OTHER -> s
    [] OTHER -> s

\* MainState::key_down_event
key_down_event(s, keycode) ==
  CASE s.game_state = "Home" -> key_down_home(s, keycode)
    [] s.game_state = "Menu" -> key_down_menu(s, keycode)
    [] s.game_state = "Playing" -> key_down_playing(s, keycode)
    [] s.game_state = "Paused" -> key_down_paused(s, keycode)

\* The hit test of option i in the click loops of both menus.
InOption(i, x, y) ==
  /\ x >= MENU_X /\ x <= MENU_X + MENU_W
  /\ y >= MENU_Y + MENU_H * i /\ y <= MENU_Y + MENU_H * i + MENU_H

\* The click loops, were they to go on after a hit: the last option, from i
\* on, that holds the point; 4 if none.
RECURSIVE LastOption(_, _, _)
LastOption(i, x, y) ==
  IF i > MENU_LAST THEN i
  ELSE LET later == LastOption(i + 1, x, y)
       IN IF later <= MENU_LAST THEN later
          ELSE IF InOption(i, x, y) THEN i ELSE later

\* The click loops: the first option, from i on, that holds the point; 4 if none.
RECURSIVE FirstOption(_, _, _)
FirstOption(i, x, y) ==
  IF i > MENU_LAST THEN i
  ELSE IF InOption(i, x, y) THEN i ELSE FirstOption(i + 1, x, y)

\* MainState::mouse_button_down_event
mouse_button_down_event(s, button, x, y) ==
  IF button = "Left"
  THEN CASE s.game_state = "Home" -> [s EXCEPT !.game_state = "Menu"]
         [] s.game_state = "Menu" ->
              LET i == FirstOption(0, x, y)
              IN IF i <= MENU_LAST
                 THEN key_down_event([s EXCEPT !.menu_selection = i], "Return")
                 ELSE s
         [] s.game_state = "Paused" ->
              LET i == FirstOption(0, x, y)
              IN IF i <= MENU_LAST
                 THEN key_down_event([s EXCEPT !.pause_selection = i], "Return")
                 ELSE s
         [] s.game_state = "Playing" ->
              IF RectContains(0, s.left_paddle_y, PADDLE_WIDTH, PADDLE_HEIGHT, x, y)
              THEN [s EXCEPT !.left_paddle_dragging = TRUE]
              ELSE IF RectContains(WINDOW_WIDTH - PADDLE_WIDTH, s.right_paddle_y,
                                   PADDLE_WIDTH, PADDLE_HEIGHT, x, y)
                   THEN [s EXCEPT !.right_paddle_dragging = TRUE]
                   ELSE s
  ELSE s

\* mouse_button_up_event, were it to end the left paddle's drag only
mouse_button_up_event_left_only(s, button) ==
  IF button = "Left" THEN [s EXCEPT !.left_paddle_dragging = FALSE] ELSE s

\* MainState::mouse_button_up_event
mouse_button_up_event(s, button) ==
  IF button = "Left"
  THEN [s EXCEPT !.left_paddle_dragging = FALSE, !.right_paddle_dragging = FALSE]
  ELSE s

\* MainState::mouse_motion_event
mouse_motion_event(s, y) ==
  IF s.left_paddle_dragging
  THEN [s EXCEPT !.left_paddle_y = Clamp(y, 0, WINDOW_HEIGHT - PADDLE_HEIGHT)]
  ELSE IF s.right_paddle_dragging
       THEN [s EXCEPT !.right_paddle_y = Clamp(y, 0, WINDOW_HEIGHT - PADDLE_HEIGHT)]
       ELSE s

\* ------------------------------------------------------------ actions
\* History.  Game is the part of the session a game in play consists of.
\* paused_at is <<g>> while the session is Paused, g was Game when P was
\* pressed, and only ticks and pause-menu navigation keys have been delivered
\* since, the last of them possibly the Enter that activates Resume; otherwise
\* it is << >>.
Game ==
  [ball_position |-> ball_position, ball_velocity |-> ball_velocity,
   left_paddle_y |-> left_paddle_y, right_paddle_y |-> right_paddle_y,
   difficulty |-> difficulty]

NavigationKeys == {"W", "Up", "S", "Down"}

PausedAtAfterKey(keycode) ==
  CASE game_state = "Playing" /\ keycode = "P" -> <<Game>>
    [] game_state = "Paused" /\ keycode \in NavigationKeys -> paused_at
    [] game_state = "Paused" /\ keycode = "Return" /\ pause_selection = 0 -> paused_at
    [] OTHER -> << >>

PausedAtAfterTick == IF game_state = "Paused" THEN paused_at ELSE << >>

\* The session becomes t, the history h, and one more event has been delivered.
Becomes(t, h) ==
  /\ events < MaxEvents
  /\ events' = events + 1
  /\ paused_at' = h
  /\ left_paddle_y' = t.left_paddle_y
  /\ right_paddle_y' = t.right_paddle_y
  /\ ball_position' = t.ball_position
  /\ ball_velocity' = t.ball_velocity
  /\ difficulty' = t.difficulty
  /\ game_state' = t.game_state
  /\ menu_selection' = t.menu_selection
  /\ pause_selection' = t.pause_selection
  /\ left_paddle_dragging' = t.left_paddle_dragging
  /\ right_paddle_dragging' = t.right_paddle_dragging

\* EventHandler::update
Update == Becomes(update(State), PausedAtAfterTick)

\* EventHandler::key_down_event with a key code
KeyDown(keycode) == Becomes(key_down_event(State, keycode), PausedAtAfterKey(keycode))

KeyDownEvent == \E keycode \in KeyCodes : KeyDown(keycode)

\* EventHandler::key_down_event with input.keycode = None
KeyDownNoCode == Becomes(State, << >>)

\* EventHandler::mouse_button_down_event
MouseButtonDown(button, x, y) ==
  Becomes(mouse_button_down_event(State, button, x, y), << >>)

MouseButtonDownEvent ==
  \E c \in ButtonPresses : MouseButtonDown(c[1], c[2][1], c[2][2])

\* EventHandler::mouse_button_up_event
MouseButtonUp(button) == Becomes(mouse_button_up_event(State, button), << >>)

MouseButtonUpEvent == \E button \in MouseButtons : MouseButtonUp(button)

\* EventHandler::mouse_motion_event
MouseMotion(y) == Becomes(mouse_motion_event(State, y), << >>)

MouseMotionEvent == \E y \in MotionYs : MouseMotion(y)

\* The session is s and no event has been delivered.
Starts(s) ==
  /\ events = 0
  /\ paused_at = << >>
  /\ left_paddle_y = s.left_paddle_y
  /\ right_paddle_y = s.right_paddle_y
  /\ ball_position = s.ball_position
  /\ ball_velocity = s.ball_velocity
  /\ difficulty = s.difficulty
  /\ game_state = s.game_state
  /\ menu_selection = s.menu_selection
  /\ pause_selection = s.pause_selection
  /\ left_paddle_dragging = s.left_paddle_dragging
  /\ right_paddle_dragging = s.right_paddle_dragging

Init == Starts(new)

Next ==
  \/ Update
  \/ KeyDownEvent
  \/ KeyDownNoCode
  \/ MouseButtonDownEvent
  \/ MouseButtonUpEvent
  \/ MouseMotionEvent

Spec == Init /\ [][Next]_vars

\* A session in play: the state new() becomes by Enter, Enter with menu
\* selection ms (difficulty d), key presses that leave the paddles at ly and
\* ry, and ticks that leave the ball at (x, y) with velocity (dx, dy).
InPlay(d, ms, ly, ry, x, y, dx, dy) ==
  [new EXCEPT !.difficulty = d, !.menu_selection = ms, !.game_state = "Playing",
              !.left_paddle_y = ly, !.right_paddle_y = ry,
              !.ball_position = Vec2(x, y), !.ball_velocity = Vec2(dx, dy)]

\* States of three actual plays (the event sequence from new() is given with
\* each), taken one or two ticks before the ball meets a wall, a paddle or a
\* goal line.
PlayStates ==
  { \* Enter, Enter, 40 x Down, 71 ticks: the ball comes to the bottom wall
    InPlay("Medium", 1, 250, 450, 684, 584, 4, 4),
    \* ... 22 more ticks: it has left the wall and comes to the right paddle
    InPlay("Medium", 1, 250, 450, 772, 512, 4, -4),
    \* ... 124 more ticks: it has left the paddle and comes to the top wall
    InPlay("Medium", 1, 250, 450, 292, 16, -4, -4),
    \* ... 66 more ticks: it comes to the left paddle
    InPlay("Medium", 1, 250, 450, 28, 264, -4, 4),
    \* Enter, S, Enter, 40 x Down, 48 ticks: the bottom wall at speed 6
    InPlay("Hard", 2, 250, 450, 688, 588, 6, 6),
    \* ... 14 more ticks: the right paddle at speed 6
    InPlay("Hard", 2, 250, 450, 772, 516, 6, -6),
    \* Enter, W, Enter, 146 ticks: just off the bottom wall at speed 2
    InPlay("Easy", 0, 250, 250, 692, 592, 2, -2),
    \* ... 52 more ticks: it passes under the right paddle to the goal line
    InPlay("Easy", 0, 250, 250, 796, 488, 2, -2) }

InitPlay == \E s \in PlayStates : Starts(s)

SpecPlay == InitPlay /\ [][Next]_vars

\* States of two actual plays in which the ball is about to pass a paddle.
GoalStates ==
  { \* Enter, Enter, 40 x Down, 40 x W, 289 ticks: the Medium ball, back from
    \* the right paddle, passes under the left paddle (at 50..150)
    InPlay("Medium", 1, 50, 450, 4, 288, -4, 4),
    \* Enter, W, Enter, 198 ticks: the Easy ball passes under the right paddle
    InPlay("Easy", 0, 250, 250, 796, 488, 2, -2) }

InitGoal == \E s \in GoalStates : Starts(s)

SpecGoal == InitGoal /\ [][Next]_vars

\* A session from its start, or a play under way.
InitAll == Init \/ InitPlay

SpecAll == InitAll /\ [][Next]_vars

\* update as a function of the ball and the paddles: a Medium game in play
\* with the ball at any point of a grid that has points on, next to and away
\* from every edge the tests of update compare with, moving in any of the four
\* directions, and each paddle at the top of the window or centred.
TickXs == {-4, 0, 4, 16, 20, 24, 28, 32, 400, 768, 772, 776, 780, 784, 796, 800, 804, 805}

TickYs == {-2, 6, 10, 14, 96, 100, 104, 246, 250, 254, 300, 346, 350, 354, 586, 590, 594}

TickSpeeds == {-4, 4}

TickPaddleYs == {0, PADDLE_CENTRE}

InitTick ==
  \E x \in TickXs, y \in TickYs, dx \in TickSpeeds, dy \in TickSpeeds,
     ly \in TickPaddleYs, ry \in TickPaddleYs :
    Starts(InPlay("Medium", 1, ly, ry, x, y, dx, dy))

NextTick == Update

SpecTick == InitTick /\ [][NextTick]_vars

\* ------------------------------------------------------------ claims
\* The click points that the click loop of a menu resolves to option i
\* (i = 4: to none).
OptionPoints ==
  [i \in 0..(MENU_LAST + 1) |-> {p \in ClickPoints : FirstOption(0, p[1], p[2]) = i}]

\* Left-button presses that the click loop of a menu resolves to option i.
ClicksOption(i) == \E p \in OptionPoints[i] : MouseButtonDown("Left", p[1], p[2])

LeftClick == \E p \in ClickPoints : MouseButtonDown("Left", p[1], p[2])

\* The main menu's option i is activated, by Enter or by a click.
ActivatesMenu(i) ==
  /\ game_state = "Menu"
  /\ (menu_selection = i /\ KeyDown("Return")) \/ ClicksOption(i)

\* The pause menu's option i is activated, by Enter or by a click.
ActivatesPause(i) ==
  /\ game_state = "Paused"
  /\ (pause_selection = i /\ KeyDown("Return")) \/ ClicksOption(i)

PaddleRange == 0 .. (WINDOW_HEIGHT - PADDLE_HEIGHT)

\* C1: in every reachable state both paddle positions are within
\* 0 .. windowHeight - paddleHeight.
C1_PaddlesInRange ==
  left_paddle_y \in PaddleRange /\ right_paddle_y \in PaddleRange

\* C2: the screen starts at Home, and a step changes the screen only as one
\* of: Home->Menu by Enter or a left click, Menu->Home by activating option 3,
\* Menu->Playing by activating option 0, 1 or 2, Playing->Paused by P,
\* Paused->Playing by activating Resume or Restart, Paused->Menu by activating
\* Stop Game, Paused->Home by activating Back to Home.  Every key and every
\* click that is none of these, every tick, mouse-up and mouse-move leaves
\* the screen as it is.
ScreenChange(from, to) == game_state = from /\ game_state' = to

AllowedKeyChange(keycode) ==
  \/ keycode = "Return" /\ ScreenChange("Home", "Menu")
  \/ keycode = "Return" /\ menu_selection = 3 /\ ScreenChange("Menu", "Home")
  \/ keycode = "Return" /\ menu_selection \in {0, 1, 2} /\ ScreenChange("Menu", "Playing")
  \/ keycode = "P" /\ ScreenChange("Playing", "Paused")
  \/ keycode = "Return" /\ pause_selection \in {0, 1} /\ ScreenChange("Paused", "Playing")
  \/ keycode = "Return" /\ pause_selection = 2 /\ ScreenChange("Paused", "Menu")
  \/ keycode = "Return" /\ pause_selection = 3 /\ ScreenChange("Paused", "Home")

AllowedClickChange(button, x, y) ==
  /\ button = "Left"
  /\ \/ ScreenChange("Home", "Menu")
     \/ FirstOption(0, x, y) = 3 /\ ScreenChange("Menu", "Home")
     \/ FirstOption(0, x, y) \in {0, 1, 2} /\ ScreenChange("Menu", "Playing")
     \/ FirstOption(0, x, y) \in {0, 1} /\ ScreenChange("Paused", "Playing")
     \/ FirstOption(0, x, y) = 2 /\ ScreenChange("Paused", "Menu")
     \/ FirstOption(0, x, y) = 3 /\ ScreenChange("Paused", "Home")

ScreenStep ==
  /\ \A keycode \in KeyCodes :
       KeyDown(keycode) => game_state' = game_state \/ AllowedKeyChange(keycode)
  /\ \A c \in ButtonPresses :
       MouseButtonDown(c[1], c[2][1], c[2][2]) =>
         game_state' = game_state \/ AllowedClickChange(c[1], c[2][1], c[2][2])
  /\ (Update \/ KeyDownNoCode \/ MouseButtonUpEvent \/ MouseMotionEvent) =>
       game_state' = game_state

C2_ScreenFlow == (events = 0 => game_state = "Home") /\ [][ScreenStep]_vars

\* C2's case: every screen has been left and entered again, the last change
\* being Stop Game's Paused->Menu.
C2_Witness ==
  /\ game_state = "Menu" /\ pause_selection = 2
  /\ ball_velocity # Vec2(0, 0) /\ events >= 5

\* C3: a tick while Playing leaves |dx| and |dy| as they were.
C3_SpeedKept ==
  [][(game_state = "Playing" /\ Update) =>
       /\ Abs(ball_velocity'.x) = Abs(ball_velocity.x)
       /\ Abs(ball_velocity'.y) = Abs(ball_velocity.y)]_vars

\* C3's case: the ball has bounced off the bottom wall at speed 4 (it is past
\* the wall line and moves up) ...
C3_Witness ==
  /\ game_state = "Playing" /\ events > 0
  /\ ball_position = Vec2(692, 592) /\ ball_velocity = Vec2(4, -4)

\* ... and, in another run, off the right paddle at speed 6.
C3_WitnessPaddle ==
  /\ game_state = "Playing" /\ events > 0
  /\ ball_position = Vec2(784, 504) /\ ball_velocity = Vec2(-6, -6)

\* C4: a tick on Home, Menu or Paused changes nothing of the session.
C4_IdleTick ==
  [][(game_state # "Playing" /\ Update) =>
       UNCHANGED <<ball_position, ball_velocity, left_paddle_y, right_paddle_y,
                   difficulty, game_state, menu_selection, pause_selection,
                   left_paddle_dragging, right_paddle_dragging>>]_vars

\* C4's case: a paused game whose ball has a velocity, ticks still to come.
C4_Witness ==
  /\ game_state = "Paused" /\ ball_velocity # Vec2(0, 0)
  /\ paused_at # << >> /\ events >= 4 /\ events < MaxEvents

\* C5: on Home, Menu and Paused no event moves a paddle, but for the
\* activation of the pause menu's Restart.
C5_PaddlesOnlyInPlay ==
  [][(game_state # "Playing" /\ ~ActivatesPause(1)) =>
       UNCHANGED <<left_paddle_y, right_paddle_y>>]_vars

\* C6: the two dragging flags are never both set.
C6_OneDrag == ~(left_paddle_dragging /\ right_paddle_dragging)

\* C7: both selection indices are in 0..3 in every reachable state, and Up/W
\* at index 0 and Down/S at index 3 leave the index as it is.
SelectionStep ==
  /\ \A keycode \in {"W", "Up"} :
       KeyDown(keycode) =>
         /\ menu_selection = 0 => menu_selection' = 0
         /\ pause_selection = 0 => pause_selection' = 0
  /\ \A keycode \in {"S", "Down"} :
       KeyDown(keycode) =>
         /\ menu_selection = 3 => menu_selection' = 3
         /\ pause_selection = 3 => pause_selection' = 3

C7_SelectionsInRange ==
  /\ [](menu_selection \in 0..3 /\ pause_selection \in 0..3)
  /\ [][SelectionStep]_vars

\* C7's case: the pause selection has been stepped down to 3 and the menu
\* selection set to 0, keys still to come.
C7_Witness ==
  /\ game_state = "Paused" /\ pause_selection = 3 /\ menu_selection = 0
  /\ events < MaxEvents

\* C8: Enter in Menu with selection i in {0, 1, 2} sets the difficulty to
\* Easy / Medium / Hard, the velocity to (+s, +s) with s = 2 / 4 / 6 and the
\* screen to Playing, and leaves the ball and the paddles where they are.
C8_Difficulty == <<"Easy", "Medium", "Hard">>

C8_Speed == <<2, 4, 6>>

C8_MenuEnterStarts ==
  [][\A i \in {0, 1, 2} :
       (game_state = "Menu" /\ menu_selection = i /\ KeyDown("Return")) =>
         /\ difficulty' = C8_Difficulty[i + 1]
         /\ ball_velocity' = Vec2(C8_Speed[i + 1], C8_Speed[i + 1])
         /\ game_state' = "Playing"
         /\ UNCHANGED <<ball_position, left_paddle_y, right_paddle_y>>]_vars

\* C8's case: a Medium game whose ball was moving up at (772, 512) has been
\* stopped and started again as Easy.
C8_Witness ==
  /\ game_state = "Playing" /\ difficulty = "Easy"
  /\ ball_position = Vec2(772, 512) /\ ball_velocity = Vec2(2, 2)

\* C9: Enter in Paused with selection 1 puts both paddles at 250, the ball at
\* (400, 300) with velocity (+s, +s) for the stored difficulty, which it
\* keeps, and the screen to Playing.
C9_Restart ==
  [][(game_state = "Paused" /\ pause_selection = 1 /\ KeyDown("Return")) =>
       /\ left_paddle_y' = 250 /\ right_paddle_y' = 250
       /\ ball_position' = Vec2(400, 300)
       /\ \E i \in {0, 1, 2} :
            /\ difficulty = C8_Difficulty[i + 1]
            /\ ball_velocity' = Vec2(C8_Speed[i + 1], C8_Speed[i + 1])
       /\ difficulty' = difficulty
       /\ game_state' = "Playing"]_vars

\* C9's case: a Hard game, begun with the right paddle at 450 and the ball
\* away from the centre, has been restarted.
C9_Witness ==
  /\ game_state = "Playing" /\ difficulty = "Hard"
  /\ ball_position = Vec2(400, 300) /\ ball_velocity = Vec2(6, 6)
  /\ left_paddle_y = 250 /\ right_paddle_y = 250

\* C10: P, then ticks and pause-menu navigation ending on selection 0, then
\* Enter: the screen is Playing again, and ball position, ball velocity, both
\* paddles and the difficulty are what they were when P was pressed.
C10_ResumeRoundTrip ==
  [][(game_state = "Paused" /\ paused_at # << >> /\ pause_selection = 0
        /\ KeyDown("Return")) =>
       game_state' = "Playing" /\ Game' = paused_at[1]]_vars

\* C10's case: a game whose ball moves up has been paused and resumed, by
\* five events or more.
C10_Witness ==
  /\ game_state = "Playing" /\ paused_at # << >>
  /\ ball_velocity.y < 0 /\ events >= 5

\* C11: activating the pause menu's Stop Game puts the screen to Menu and
\* leaves ball position, ball velocity and paddles as they are; and a step
\* that enters Playing from a screen other than Paused is the activation of
\* menu option 0, 1 or 2, after which the velocity is (+s, +s) for the
\* difficulty chosen.
C11_StopThenRelaunch ==
  [][/\ ActivatesPause(2) =>
          /\ game_state' = "Menu"
          /\ UNCHANGED <<ball_position, ball_velocity, left_paddle_y, right_paddle_y>>
     /\ (game_state \notin {"Paused", "Playing"} /\ game_state' = "Playing") =>
          \E i \in {0, 1, 2} :
            /\ ActivatesMenu(i)
            /\ difficulty' = C8_Difficulty[i + 1]
            /\ ball_velocity' = Vec2(C8_Speed[i + 1], C8_Speed[i + 1])]_vars

\* C11's case: a Medium game whose ball was moving up and left at (292, 16)
\* has been stopped from the pause menu and started again as Hard.
C11_Witness ==
  /\ game_state = "Playing" /\ pause_selection = 2 /\ difficulty = "Hard"
  /\ ball_position = Vec2(292, 16) /\ ball_velocity = Vec2(6, 6)

\* Option i's hit region, edges included.
C12_InRegion(i, x, y) ==
  /\ 300 <= x /\ x <= 500
  /\ 200 + 50 * i <= y /\ y <= 250 + 50 * i

C12_Selected(i) ==
  IF game_state = "Menu"
  THEN key_down_event([State EXCEPT !.menu_selection = i], "Return")
  ELSE key_down_event([State EXCEPT !.pause_selection = i], "Return")

C12_ClickStep(options(_, _)) ==
  \A p \in ClickPoints :
    (game_state \in {"Menu", "Paused"} /\ MouseButtonDown("Left", p[1], p[2])) =>
      /\ \A i \in options(p[1], p[2]) : State' = C12_Selected(i)
      /\ (\A i \in 0..3 : ~C12_InRegion(i, p[1], p[2])) => State' = State

C12_Regions(x, y) == {i \in 0..3 : C12_InRegion(i, x, y)}

\* C12 as stated: a left click on Menu or Paused at a point of option i's
\* region, for every such i, gives the state that selecting i and pressing
\* Enter gives; a click outside the four regions changes nothing.
C12_ClickIsEnter == [][C12_ClickStep(C12_Regions)]_vars

C12_FirstRegion(x, y) ==
  {i \in C12_Regions(x, y) : \A j \in C12_Regions(x, y) : i <= j}

\* C12 as amended: a left click on Menu or Paused at a point of some option's
\* region gives the state that selecting the first (topmost) of the options
\* whose region holds the point and pressing Enter gives; a click outside the
\* four regions changes nothing.
C12_ClickIsEnterOfFirst == [][C12_ClickStep(C12_FirstRegion)]_vars

\* C12's case: Enter, then a click on the menu's Easy, which started the game
\* (only a click selects Easy and starts it in one event).
C12_Witness ==
  /\ events = 2 /\ game_state = "Playing"
  /\ difficulty = "Easy" /\ menu_selection = 0 /\ ball_velocity = Vec2(2, 2)

\* C13's input: in play, the ball at (805, 300) with velocity (4, 4), the
\* right paddle spanning 250..350.
C13_Case ==
  /\ game_state = "Playing" /\ right_paddle_y = 250
  /\ ball_position = Vec2(805, 300) /\ ball_velocity = Vec2(4, 4)

C14_HomeEnterSelectsMedium ==
  [][(game_state = "Home" /\ KeyDown("Return")) =>
       game_state' = "Menu" /\ menu_selection' = 1]_vars

\* C14 as amended: whenever the screen is Home and Enter is pressed, the
\* screen becomes Menu and the main-menu selection is what it was, which is 1
\* on the Home a session starts with: no event on Home changes the selection,
\* a step from Menu to Home leaves it 3 (Back to Home) and a step from Paused
\* to Home leaves it what it was (the option the game was started with).
C14_HomeEnterKeepsSelection ==
  /\ (events = 0 => game_state = "Home" /\ menu_selection = 1)
  /\ [](game_state \in {"Playing", "Paused"} => C8_Difficulty[menu_selection + 1] = difficulty)
  /\ [][/\ (game_state = "Home" /\ KeyDown("Return")) =>
            game_state' = "Menu" /\ menu_selection' = menu_selection
        /\ game_state = "Home" => menu_selection' = menu_selection
        /\ (game_state = "Menu" /\ game_state' = "Home") => menu_selection' = 3
        /\ (game_state = "Paused" /\ game_state' = "Home") =>
             menu_selection' = menu_selection]_vars

\* C14's case: Home has been reached again through the menu's Back to Home
\* after the selection was moved, and an event (Enter, for one) can still be
\* delivered.
C14_Witness ==
  /\ game_state = "Home" /\ menu_selection = 3 /\ events > 0 /\ events < MaxEvents

\* C15: on every screen, a mouse-up of any button in a state where neither
\* paddle is dragged leaves the whole state as it is; and a left-button
\* mouse-up in any state leaves neither paddle dragged, so that a second one
\* changes nothing more.
C15_MouseUp ==
  [][/\ \A button \in MouseButtons :
          (MouseButtonUp(button) /\ ~left_paddle_dragging /\ ~right_paddle_dragging) =>
            State' = State
     /\ MouseButtonUp("Left") =>
          /\ ~left_paddle_dragging' /\ ~right_paddle_dragging'
          /\ mouse_button_up_event(State', "Left") = State']_vars

\* C15's case: the left paddle was dragged to 498 and the drag has ended,
\* which only a left-button mouse-up does; a further mouse-up can be delivered
\* with no drag active.
C15_Witness ==
  /\ left_paddle_y = 498 /\ ~left_paddle_dragging /\ ~right_paddle_dragging
  /\ events < MaxEvents

\* The intervals of C16's reference step: from lo, of length len, without and
\* with the far end.
C16_HalfOpen(lo, len, v) == lo <= v /\ v < lo + len

C16_Closed(lo, len, v) == lo <= v /\ v <= lo + len

\* C16's reference step with In for the intervals of the paddle rectangles:
\* the position advances by the velocity; on the new position (x, y), dy is
\* negated iff y - 10 < 0 or y + 10 > 600; then dx is negated iff x - 10 < 20
\* and (x, y) is in the left paddle's rectangle; then dx is negated iff
\* x + 10 > 780 and (x, y) is in the right paddle's rectangle; nothing else
\* changes.
C16_Step(In(_, _, _)) ==
  LET x == ball_position.x + ball_velocity.x
      y == ball_position.y + ball_velocity.y
      dy == IF y - 10 < 0 \/ y + 10 > 600 THEN -ball_velocity.y ELSE ball_velocity.y
      dx1 == IF x - 10 < 20 /\ In(0, 20, x) /\ In(left_paddle_y, 100, y)
             THEN -ball_velocity.x ELSE ball_velocity.x
      dx2 == IF x + 10 > 780 /\ In(780, 20, x) /\ In(right_paddle_y, 100, y)
             THEN -dx1 ELSE dx1
  IN State' = [State EXCEPT !.ball_position = Vec2(x, y),
                            !.ball_velocity = Vec2(dx2, dy)]

\* C16 as stated: a tick in play is the reference step with the paddle
\* rectangles x in [0, 20) or [780, 800), y in [paddleY, paddleY + 100).
C16_TickHalfOpen ==
  [][(game_state = "Playing" /\ Update) => C16_Step(C16_HalfOpen)]_vars

\* C16 as amended: a tick in play is the reference step with the paddle
\* rectangles x in [0, 20] or [780, 800], y in [paddleY, paddleY + 100]: a
\* ball centre on a rectangle's edge is in it.
C16_TickClosed ==
  [][(game_state = "Playing" /\ Update) => C16_Step(C16_Closed)]_vars

\* C16's case: the tick has taken the ball from (24, 346), moving down and
\* left, to the left paddle's bottom right corner (20, 350), and it bounced.
C16_Witness ==
  /\ events = 1 /\ game_state = "Playing" /\ left_paddle_y = 250
  /\ ball_position = Vec2(20, 350) /\ ball_velocity = Vec2(4, 4)

\* The ball's centre is beyond a goal line and moving outward.
C17_Out ==
  \/ ball_position.x < 0 /\ ball_velocity.x < 0
  \/ ball_position.x > WINDOW_WIDTH /\ ball_velocity.x > 0

\* The pause menu's Restart or a start from the main menu.
C17_Relaunch == ActivatesPause(1) \/ \E i \in {0, 1, 2} : ActivatesMenu(i)

\* C17: once the ball's centre is beyond a goal line and moving outward, every
\* event other than Restart and a start from the menu leaves it so and leaves
\* dx as it is, wherever the paddles are put; and a tick in play moves the
\* ball on by dx, further out.
C17_NoResetOnMiss ==
  [][(C17_Out /\ ~C17_Relaunch) =>
       /\ C17_Out' /\ ball_velocity'.x = ball_velocity.x
       /\ (game_state = "Playing" /\ Update) =>
            /\ ball_position'.x = ball_position.x + ball_velocity.x
            /\ ball_position.x < 0 => ball_position'.x < ball_position.x
            /\ ball_position.x > WINDOW_WIDTH => ball_position'.x > ball_position.x]_vars

\* C17's case: the Medium ball has passed the left goal line and gone on, and
\* the left paddle has been dragged to the bottom meanwhile.
C17_Witness ==
  /\ game_state = "Playing" /\ left_paddle_y = 498
  /\ ball_position.x <= -8 /\ ball_velocity.x = -4

\* C18: after every tick in play at whose end the ball overlaps the bottom
\* wall (y + 10 > 600) the vertical velocity is negative, and after every tick
\* in play at whose end it overlaps the top wall (y - 10 < 0) the vertical
\* velocity is positive.
C18_WallSendsBack ==
  [][(game_state = "Playing" /\ Update) =>
       /\ ball_position'.y + BALL_RADIUS > WINDOW_HEIGHT => ball_velocity'.y < 0
       /\ ball_position'.y - BALL_RADIUS < 0 => ball_velocity'.y > 0]_vars

\* C19: after every tick in play in which the left-paddle test fires the
\* horizontal velocity is positive, and after every tick in play in which the
\* right-paddle test fires it is negative.
C19_PaddleSendsAway ==
  [][(game_state = "Playing" /\ Update) =>
       /\ HitsLeftPaddle(ball_position', left_paddle_y) => ball_velocity'.x > 0
       /\ HitsRightPaddle(ball_position', right_paddle_y) => ball_velocity'.x < 0]_vars

C20_Speed == [Easy |-> 2, Medium |-> 4, Hard |-> 6]

C20_Zero == ball_velocity = Vec2(0, 0)

\* C20: in every state whose screen is Playing or Paused, |dx| = |dy| = 2 for
\* Easy, 4 for Medium, 6 for Hard; the velocity is (0, 0) exactly while no
\* game has been started: it is so when the session starts, stays so until a
\* game is started, is not so after a start and never becomes so again; and
\* the difficulty changes only when menu option 0, 1 or 2 is activated.
C20_VelocityOfDifficulty ==
  /\ [](game_state \in {"Playing", "Paused"} =>
          /\ Abs(ball_velocity.x) = C20_Speed[difficulty]
          /\ Abs(ball_velocity.y) = C20_Speed[difficulty])
  /\ []((events = 0 /\ game_state = "Home") => C20_Zero)
  /\ [](C20_Zero => game_state \in {"Home", "Menu"})
  /\ [][/\ (C20_Zero /\ ~C17_Relaunch) => C20_Zero'
        /\ C20_Zero' => ~C17_Relaunch
        /\ ~C20_Zero => ~C20_Zero'
        /\ difficulty' # difficulty => \E i \in {0, 1, 2} : ActivatesMenu(i)]_vars

\* C20's case: a Hard game whose ball has bounced off the right paddle while
\* moving up is paused.
C20_Witness ==
  /\ game_state = "Paused" /\ difficulty = "Hard" /\ ball_velocity = Vec2(-6, -6)

====
